---- MODULE Spec2Model ----
(***************************************************************************)
(* Model of src/app.py: class ExcelToJsonPresentation.                     *)
(*                                                                         *)
(* Strings are modelled as sequences of Unicode code points, so that the   *)
(* substring test `"宣導" in category` and the lexicographic ordering of    *)
(* pandas' groupby keys are computed, not assumed.  The text of a record's *)
(* '內容' field is only ever measured with len(), so a record carries the   *)
(* length of its content.  Field names that are not TLA+ identifiers are   *)
(* transliterated: '類型' -> type, '內容' -> content.                        *)
(***************************************************************************)
EXTENDS Integers, Sequences, FiniteSets, TLC

(* ----------------------------- bounds ---------------------------------- *)
\* rows of the work sheet (specification Spec)
MaxRows == 3
\* items of the category handed to _add_category_slides (SpecPaginate)
MaxItems == 5
\* largest items_per_page tried
MaxIpp == 3
\* numbered alternate output paths that may exist beforehand (SpecSave)
MaxAlt == 2

(* ----------------------------- strings --------------------------------- *)
\* "宣導" = U+5BA3 U+5C0E, the literal of lines 115, 123, 134, 194, 200, 244, 258
ExclusionPattern == <<23459, 23566>>
\* "未分類" = U+672A U+5206 U+985E (line 129)
Uncategorized == <<26410, 20998, 39006>>
\* "所有議題" = U+6240 U+6709 U+8B70 U+984C (line 264)
AllIssues == <<25152, 26377, 35696, 38988>>
\* category values of the sheet: "系" U+7CFB, "資" U+8CC7, "宣導", "資宣導"
Labels == { <<31995>>, <<36039>>, <<23459, 23566>>, <<36039, 23459, 23566>> }
\* content lengths on both sides of the isolation threshold
ContentLengths == {200, 201}
\* default of the parameter max_content_length (line 442)
max_content_length == 200
\* content longer than this is set in a smaller font (line 515)
long_content_length == 300
\* the optional detail fields of a record: none, or '涉及部門' and '系統別'
DetailValues == { <<>>, <<"department", "system">> }

None == [none |-> TRUE]

\* Python's `pat in s` on strings
Contains(pat, s) ==
    \E i \in 1..(Len(s) - Len(pat) + 1) : SubSeq(s, i, i + Len(pat) - 1) = pat

\* `"宣導" in category`
IsExcluded(cat) == Contains(ExclusionPattern, cat)

\* Python's str `<`: code point order, a proper prefix is smaller
LexLess(a, b) ==
    \/ \E i \in 1..Len(a) :
          /\ i <= Len(b)
          /\ \A j \in 1..(i - 1) : a[j] = b[j]
          /\ a[i] < b[i]
    \/ /\ Len(a) < Len(b)
       /\ \A j \in 1..Len(a) : a[j] = b[j]

RECURSIVE SortAscending(_)
SortAscending(S) ==
    IF S = {} THEN <<>>
    ELSE LET m == CHOOSE x \in S : \A y \in S : x = y \/ LexLess(x, y)
         IN  <<m>> \o SortAscending(S \ {m})

RECURSIVE Flatten(_)
Flatten(ss) == IF ss = <<>> THEN <<>> ELSE Head(ss) \o Flatten(Tail(ss))

RECURSIVE SumSeq(_)
SumSeq(s) == IF s = <<>> THEN 0 ELSE Head(s) + SumSeq(Tail(s))

(* ----------------------------- state ----------------------------------- *)
VARIABLES
    df,              \* the cleaned DataFrame rows (lines 100-107)
    has_type_column, \* '類型' in df.columns
    json_data,       \* self.json_data
    filtered_total,  \* self.filtered_total
    prs_saved,       \* the document saved by the last create_presentation
    ret,             \* return value of the last create_presentation
    files,           \* the file system: existing path -> content
    save_error,      \* the exception prs.save(path) raises, per path
    target_path,     \* the path printed at line 283 ("" if none was)
    pc,              \* the operation main() executed last / position inside
                     \* _add_category_slides
    category,        \* arguments and locals of _add_category_slides
    items,
    items_per_page,
    slides_batches,
    buffer_batch,
    seq_number,
    idx,             \* position of `for original_item in items`
    page_num,        \* position of `for page_num, page_items in enumerate(..)`
    slides           \* slides added to prs by _add_category_slides

vars == <<df, has_type_column, json_data, filtered_total, prs_saved, ret,
          files, save_error, target_path, pc,
          category, items, items_per_page, slides_batches, buffer_batch,
          seq_number, idx, page_num, slides>>

pipelineVars == <<df, has_type_column, json_data, filtered_total, prs_saved,
                  ret, files, save_error, target_path>>
localVars == <<category, items, slides_batches, buffer_batch, seq_number, idx,
               page_num, slides>>

\* items_per_page of a direct call of _add_category_slides
IppValues == {-1, 0} \cup (1..MaxIpp)
\* items_per_page of create_presentation: invalid, main()'s 2 (lines 655,
\* 673), the default 3 (line 175)
CallerIppValues == {0, 2, 3}

(* ------------------- _add_category_slides (442-541) -------------------- *)
\* item.get('內容', '') or '' measured by len()
ContentLen(item) == item.content

\* LoopBody with `seq_number += 1` moved into the else branch
LoopBody_SeqOnlyWhenBuffered(st, original_item, ipp) ==
    IF ContentLen(original_item) > max_content_length
    THEN [slides_batches |->
              Append(IF st.buffer_batch # <<>>
                     THEN Append(st.slides_batches, st.buffer_batch)
                     ELSE st.slides_batches,
                     << <<original_item, st.seq_number>> >>),
          buffer_batch |-> <<>>,
          seq_number |-> st.seq_number]
    ELSE LET b == Append(st.buffer_batch, <<original_item, st.seq_number>>)
         IN  IF Len(b) >= ipp
             THEN [slides_batches |-> Append(st.slides_batches, b),
                   buffer_batch |-> <<>>,
                   seq_number |-> st.seq_number + 1]
             ELSE [slides_batches |-> st.slides_batches,
                   buffer_batch |-> b,
                   seq_number |-> st.seq_number + 1]

\* LoopBody that flushes the buffer together with the oversized item
LoopBody_IsolateWithBuffer(st, original_item, ipp) ==
    IF ContentLen(original_item) > max_content_length
    THEN [slides_batches |->
              Append(st.slides_batches,
                     Append(st.buffer_batch, <<original_item, st.seq_number>>)),
          buffer_batch |-> <<>>,
          seq_number |-> st.seq_number + 1]
    ELSE LET b == Append(st.buffer_batch, <<original_item, st.seq_number>>)
         IN  IF Len(b) >= ipp
             THEN [slides_batches |-> Append(st.slides_batches, b),
                   buffer_batch |-> <<>>,
                   seq_number |-> st.seq_number + 1]
             ELSE [slides_batches |-> st.slides_batches,
                   buffer_batch |-> b,
                   seq_number |-> st.seq_number + 1]

\* LoopBody with `>` for `>=` at line 470
LoopBody_FlushAbove(st, original_item, ipp) ==
    IF ContentLen(original_item) > max_content_length
    THEN [slides_batches |->
              Append(IF st.buffer_batch # <<>>
                     THEN Append(st.slides_batches, st.buffer_batch)
                     ELSE st.slides_batches,
                     << <<original_item, st.seq_number>> >>),
          buffer_batch |-> <<>>,
          seq_number |-> st.seq_number + 1]
    ELSE LET b == Append(st.buffer_batch, <<original_item, st.seq_number>>)
         IN  IF Len(b) > ipp
             THEN [slides_batches |-> Append(st.slides_batches, b),
                   buffer_batch |-> <<>>,
                   seq_number |-> st.seq_number + 1]
             ELSE [slides_batches |-> st.slides_batches,
                   buffer_batch |-> b,
                   seq_number |-> st.seq_number + 1]

\* LoopBody that flushes one record early (`>= items_per_page - 1`)
LoopBody_FlushEarly(st, original_item, ipp) ==
    IF ContentLen(original_item) > max_content_length
    THEN [slides_batches |->
              Append(IF st.buffer_batch # <<>>
                     THEN Append(st.slides_batches, st.buffer_batch)
                     ELSE st.slides_batches,
                     << <<original_item, st.seq_number>> >>),
          buffer_batch |-> <<>>,
          seq_number |-> st.seq_number + 1]
    ELSE LET b == Append(st.buffer_batch, <<original_item, st.seq_number>>)
         IN  IF Len(b) >= ipp - 1
             THEN [slides_batches |-> Append(st.slides_batches, b),
                   buffer_batch |-> <<>>,
                   seq_number |-> st.seq_number + 1]
             ELSE [slides_batches |-> st.slides_batches,
                   buffer_batch |-> b,
                   seq_number |-> st.seq_number + 1]

\* body of `for original_item in items` (lines 462-473)
LoopBody(st, original_item, ipp) ==
    IF ContentLen(original_item) > max_content_length
    THEN [slides_batches |->
              Append(IF st.buffer_batch # <<>>
                     THEN Append(st.slides_batches, st.buffer_batch)
                     ELSE st.slides_batches,
                     << <<original_item, st.seq_number>> >>),
          buffer_batch |-> <<>>,
          seq_number |-> st.seq_number + 1]
    ELSE LET b == Append(st.buffer_batch, <<original_item, st.seq_number>>)
         IN  IF Len(b) >= ipp
             THEN [slides_batches |-> Append(st.slides_batches, b),
                   buffer_batch |-> <<>>,
                   seq_number |-> st.seq_number + 1]
             ELSE [slides_batches |-> st.slides_batches,
                   buffer_batch |-> b,
                   seq_number |-> st.seq_number + 1]

\* FinalFlush without lines 474-475
FinalFlush_Missing(st) == st.slides_batches

\* FinalFlush without the test `if buffer_batch:` of line 474
FinalFlush_Unconditional(st) == Append(st.slides_batches, st.buffer_batch)

\* lines 474-475
FinalFlush(st) ==
    IF st.buffer_batch # <<>>
    THEN Append(st.slides_batches, st.buffer_batch)
    ELSE st.slides_batches

\* SlideTitle with `total_pages >= 1` at line 486
SlideTitle_AlwaysSuffix(cat, pageNum, total_pages) ==
    IF total_pages >= 1
    THEN [category |-> cat, suffix |-> <<pageNum, total_pages>>]
    ELSE [category |-> cat, suffix |-> <<>>]

\* lines 486-489: the text of the slide title
SlideTitle(cat, pageNum, total_pages) ==
    IF total_pages > 1
    THEN [category |-> cat, suffix |-> <<pageNum, total_pages>>]
    ELSE [category |-> cat, suffix |-> <<>>]

\* the optional fields '涉及處別', '涉及部門', '系統別' that a record has with a
\* non-empty value (lines 519-525); a record may lack all three keys
Details(item) == IF "details" \in DOMAIN item THEN item.details ELSE <<>>

\* the paragraphs of one record (lines 506-535); i is the 0-based index of
\* enumerate(page_items), n is len(page_items)
ItemParagraphs(item, seq_no, i, n) ==
    << [kind |-> "content", seq_no |-> seq_no,
        reduced |-> ContentLen(item) > long_content_length] >>
    \o (IF Details(item) # <<>>
        THEN << [kind |-> "detail", fields |-> Details(item)] >>
        ELSE <<>>)
    \o (IF i < n - 1 THEN << [kind |-> "separator"] >> ELSE <<>>)

\* PageParagraphs with a separator after every record (`i <= len - 1`)
PageParagraphs_TrailingSeparator(page_items) ==
    Flatten([k \in 1..Len(page_items) |->
                ItemParagraphs(page_items[k][1], page_items[k][2],
                               k - 1, Len(page_items) + 1)])

\* the text frame after `for i, (item, seq_no) in enumerate(page_items)`
\* (lines 492-535)
PageParagraphs(page_items) ==
    Flatten([k \in 1..Len(page_items) |->
                ItemParagraphs(page_items[k][1], page_items[k][2],
                               k - 1, Len(page_items))])

\* one pass of `for page_num, page_items in enumerate(slides_batches, 1)`
RenderSlide(cat, pageNum, total_pages, page_items) ==
    [title |-> SlideTitle(cat, pageNum, total_pages),
     page_items |-> page_items,
     paragraphs |-> PageParagraphs(page_items)]

RECURSIVE RunLoop(_, _, _)
RunLoop(st, its, ipp) ==
    IF its = <<>> THEN st
    ELSE RunLoop(LoopBody(st, Head(its), ipp), Tail(its), ipp)

\* the whole of _add_category_slides: the slides it adds to prs
AddCategorySlides(cat, its, ipp) ==
    IF its = <<>> THEN <<>>
    ELSE LET st == RunLoop([slides_batches |-> <<>>, buffer_batch |-> <<>>,
                            seq_number |-> 1], its, ipp)
             batches == FinalFlush(st)
         IN  [p \in 1..Len(batches) |->
                 RenderSlide(cat, p, Len(batches), batches[p])]

(* --------------------- read_excel_to_json (66-153) --------------------- *)
\* item.get('類型', '') of a record (line 199); '' when the column is absent
TypeOf(item) == IF "type" \in DOMAIN item THEN item.type ELSE <<>>

\* the distinct values of s, each at its first occurrence
RECURSIVE FirstOccurrences(_)
FirstOccurrences(s) ==
    IF s = <<>> THEN <<>>
    ELSE LET rest == FirstOccurrences(SubSeq(s, 1, Len(s) - 1))
             last == s[Len(s)]
         IN  IF \E i \in 1..Len(rest) : rest[i] = last
             THEN rest
             ELSE Append(rest, last)

\* GroupKeys as df.groupby('類型', sort=False) would give them
GroupKeys_Unsorted(rows) ==
    FirstOccurrences([i \in 1..Len(rows) |-> rows[i].type])

\* iteration order of df.groupby('類型') (lines 113-114): pandas sorts the
\* group keys (sort=True is the default of groupby)
GroupKeys(rows) == SortAscending({rows[i].type : i \in DOMAIN rows})

\* group.to_dict('records') of one key: the key's rows, in row order
GroupRecords(rows, key) ==
    LET InGroup(r) == r.type = key IN SelectSeq(rows, InGroup)

\* categorized_data (lines 110-118, 129): an insertion-ordered dict, as the
\* sequence of its (key, value) entries
CategorizedData(rows, hasType) ==
    IF hasType
    THEN LET Kept(c) == ~IsExcluded(c)
             keys == SelectSeq(GroupKeys(rows), Kept)
         IN  [k \in 1..Len(keys) |->
                 [category |-> keys[k], items |-> GroupRecords(rows, keys[k])]]
    ELSE << [category |-> Uncategorized, items |-> rows] >>

\* CategoryStats counted on the groups of df, before the exclusion
CategoryStats_BeforeFilter(rows, hasType, categorized_data) ==
    IF hasType
    THEN LET keys == GroupKeys(rows)
         IN  [k \in 1..Len(keys) |->
                 [category |-> keys[k],
                  count |-> Len(GroupRecords(rows, keys[k]))]]
    ELSE << [category |-> Uncategorized, count |-> Len(rows)] >>

\* category_stats (lines 121-126, 130)
CategoryStats(rows, hasType, categorized_data) ==
    IF hasType
    THEN LET Kept(e) == ~IsExcluded(e.category)
             kept == SelectSeq(categorized_data, Kept)
         IN  [k \in 1..Len(kept) |->
                 [category |-> kept[k].category, count |-> Len(kept[k].items)]]
    ELSE << [category |-> Uncategorized, count |-> Len(rows)] >>

\* filtered_categories_for_meta (line 134)
FilteredCategoriesForMeta(categorized_data) ==
    LET Kept(e) == ~IsExcluded(e.category)
        kept == SelectSeq(categorized_data, Kept)
    IN  [k \in 1..Len(kept) |-> kept[k].category]

\* the dict built at lines 135-146
BuildJsonData(rows, hasType) ==
    LET categorized_data == CategorizedData(rows, hasType)
    IN  [metadata |->
            [total_rows |-> Len(rows),
             categories |-> FilteredCategoriesForMeta(categorized_data),
             category_stats |-> CategoryStats(rows, hasType, categorized_data)],
         data_by_category |-> categorized_data,
         data |-> rows]

\* a snapshot that only has the flat 'data' list (the format line 145 keeps
\* "for backward compatibility", read back at lines 645-652)
FlatJsonData(rows, hasType) ==
    LET full == BuildJsonData(rows, hasType)
    IN  [metadata |-> full.metadata, data |-> full.data]

(* --------------------- create_presentation (175-293) ------------------- *)
\* what lines 192-202 add to self.filtered_total
FilteredCount(json) ==
    IF "data_by_category" \in DOMAIN json
    THEN SumSeq([k \in 1..Len(json.data_by_category) |->
                    IF IsExcluded(json.data_by_category[k].category)
                    THEN 0
                    ELSE Len(json.data_by_category[k].items)])
    ELSE LET Counted(item) == ~IsExcluded(TypeOf(item))
         IN  Len(SelectSeq(json.data, Counted))

\* the per-category lines of the overview page (lines 240-249)
OverviewStats(json) ==
    LET Shown(e) == ~IsExcluded(e.category)
    IN  SelectSeq(json.metadata.category_stats, Shown)

\* the category slides, in the order they are added (lines 256-264)
CategorySlides(json, ipp) ==
    IF "data_by_category" \in DOMAIN json
    THEN Flatten([k \in 1..Len(json.data_by_category) |->
                    IF IsExcluded(json.data_by_category[k].category)
                    THEN <<>>
                    ELSE AddCategorySlides(json.data_by_category[k].category,
                                           json.data_by_category[k].items, ipp)])
    ELSE AddCategorySlides(AllIssues, json.data, ipp)

\* the presentation object at the time of prs.save (line 269)
BuildPresentation(json, total, ipp) ==
    [subtitle_total |-> total,
     motivation_total |-> total,
     overview_total |-> total,
     overview_stats |-> OverviewStats(json),
     category_slides |-> CategorySlides(json, ipp)]

(* ------------------- saving the document (266-283) --------------------- *)
\* output_pptx_path: "a.pptx"
OutputPath == <<97, 46, 112, 112, 116, 120>>
\* "_另存" = '_' U+53E6 U+5B58 (lines 273, 276)
AltSuffix == <<95, 21478, 23384>>
\* content of a file that some other program wrote
Other == [other |-> TRUE]
\* a file system without files; also: no path raises
NoFiles == [p \in {} |-> Other]

\* os.path.splitext: the extension starts at the last '.', unless that
\* dot leads the name
SplitExt(path) ==
    LET dots == {i \in 2..Len(path) : path[i] = 46}
    IN  IF dots = {} THEN [base |-> path, ext |-> <<>>]
        ELSE LET d == CHOOSE i \in dots : \A j \in dots : j <= i
             IN  [base |-> SubSeq(path, 1, d - 1),
                  ext |-> SubSeq(path, d, Len(path))]

\* str(counter) in an f-string
RECURSIVE Str(_)
Str(n) == IF n < 10 THEN <<48 + n>> ELSE Str(n \div 10) \o <<48 + (n % 10)>>

\* f"{base}_另存{ext}" (line 273)
FirstAltPath(path) == SplitExt(path).base \o AltSuffix \o SplitExt(path).ext

\* f"{base}_另存({counter}){ext}" (line 276)
NumberedAltPath(path, counter) ==
    SplitExt(path).base \o AltSuffix \o <<40>> \o Str(counter) \o <<41>>
        \o SplitExt(path).ext

\* `while os.path.exists(alt_path)` (lines 275-277)
RECURSIVE AltPathLoop(_, _, _, _)
AltPathLoop(path, alt_path, counter, existing) ==
    IF alt_path \in existing
    THEN AltPathLoop(path, NumberedAltPath(path, counter), counter + 1, existing)
    ELSE alt_path

\* AlternatePath without the search for a free name
AlternatePath_NoSearch(path, existing) == FirstAltPath(path)

\* alt_path at line 278
AlternatePath(path, existing) ==
    AltPathLoop(path, FirstAltPath(path), 1, existing)

\* what prs.save(path) raises: "none", "PermissionError" or "OSError"
ErrorAt(errors, path) ==
    IF path \in DOMAIN errors THEN errors[path] ELSE "none"

\* the file system after a successful prs.save(path)
WriteFile(fs, path, doc) ==
    [q \in (DOMAIN fs) \cup {path} |-> IF q = path THEN doc ELSE fs[q]]

\* lines 266-283 and the handler of lines 291-293: the file system after
\* the call, the path reported and whether True is returned
SavePresentation(prs, output_pptx_path, fs, errors) ==
    IF ErrorAt(errors, output_pptx_path) = "none"
    THEN [files |-> WriteFile(fs, output_pptx_path, prs),
          target_path |-> output_pptx_path, ok |-> TRUE]
    ELSE IF ErrorAt(errors, output_pptx_path) = "PermissionError"
    THEN LET alt_path == AlternatePath(output_pptx_path, DOMAIN fs)
         IN  IF ErrorAt(errors, alt_path) = "none"
             THEN [files |-> WriteFile(fs, alt_path, prs),
                   target_path |-> alt_path, ok |-> TRUE]
             ELSE [files |-> fs, target_path |-> <<>>, ok |-> FALSE]
    ELSE [files |-> fs, target_path |-> <<>>, ok |-> FALSE]

(* ----------------------------- operations ------------------------------ *)
UnusedLocals ==
    /\ category = <<>>
    /\ items = <<>>
    /\ slides_batches = <<>>
    /\ buffer_batch = <<>>
    /\ seq_number = 1
    /\ idx = 1
    /\ page_num = 1
    /\ slides = <<>>

\* __init__ (lines 18-20), for every work sheet of at most MaxRows rows
Init ==
    /\ \E n \in 0..MaxRows, hasType \in BOOLEAN :
          \E types \in [1..n -> Labels], lens \in [1..n -> ContentLengths] :
             /\ has_type_column = hasType
             /\ df = [i \in 1..n |->
                        IF hasType
                        THEN [type |-> types[i], content |-> lens[i], row |-> i]
                        ELSE [content |-> lens[i], row |-> i]]
             /\ (~hasType => \A i \in 1..n : types[i] = <<31995>>)
    /\ json_data = None
    /\ filtered_total = 0
    /\ prs_saved = None
    /\ ret = None
    /\ files = NoFiles
    /\ save_error = NoFiles
    /\ target_path = <<>>
    /\ pc = "init"
    /\ items_per_page = 0
    /\ UnusedLocals

\* read_excel_to_json (lines 66-149)
ReadExcelToJson ==
    /\ json_data' = BuildJsonData(df, has_type_column)
    /\ pc' = "read_excel_to_json"
    /\ UNCHANGED <<df, has_type_column, filtered_total, prs_saved, ret,
                   files, save_error, target_path, items_per_page>>
    /\ UNCHANGED localVars

\* main(), lines 645-652: processor.json_data = data, a flat snapshot
LoadJsonData ==
    /\ json_data' = FlatJsonData(df, has_type_column)
    /\ pc' = "load_json"
    /\ UNCHANGED <<df, has_type_column, filtered_total, prs_saved, ret,
                   files, save_error, target_path, items_per_page>>
    /\ UNCHANGED localVars

\* create_presentation(output_pptx_path, items_per_page) (lines 175-293);
\* not called again once self.filtered_total has passed MaxRows
CreatePresentation(ipp) ==
    /\ filtered_total <= MaxRows
    /\ pc' = "create_presentation"
    /\ items_per_page' = ipp
    /\ IF json_data = None
       THEN /\ ret' = FALSE
            /\ prs_saved' = None
            /\ target_path' = <<>>
            /\ UNCHANGED <<filtered_total, files>>
       ELSE /\ filtered_total' = filtered_total + FilteredCount(json_data)
            /\ LET prs == BuildPresentation(json_data, filtered_total', ipp)
                   saved == SavePresentation(prs, OutputPath, files, save_error)
               IN  /\ files' = saved.files
                   /\ target_path' = saved.target_path
                   /\ ret' = saved.ok
                   /\ prs_saved' = IF saved.ok THEN prs ELSE None
    /\ UNCHANGED <<df, has_type_column, json_data, save_error>>
    /\ UNCHANGED localVars

Next ==
    \/ ReadExcelToJson
    \/ LoadJsonData
    \/ \E ipp \in CallerIppValues : CreatePresentation(ipp)

Spec == Init /\ [][Next]_vars

(* ---------------- create_presentation on a used directory -------------- *)
\* the output path and its first alternates
CandidatePaths ==
    {OutputPath, FirstAltPath(OutputPath)}
        \cup {NumberedAltPath(OutputPath, n) : n \in 1..MaxAlt}

\* the state after read_excel_to_json of a one-row sheet, in a directory
\* where some of the candidate paths exist and some cannot be written
InitSave ==
    /\ has_type_column = TRUE
    /\ df = << [type |-> <<31995>>, content |-> 200, row |-> 1] >>
    /\ json_data = BuildJsonData(df, has_type_column)
    /\ filtered_total = 0
    /\ prs_saved = None
    /\ ret = None
    /\ \E existing \in SUBSET CandidatePaths : files = [p \in existing |-> Other]
    /\ \E denied \in SUBSET CandidatePaths, broken \in SUBSET {OutputPath} :
          save_error = [p \in CandidatePaths |->
                           IF p \in broken THEN "OSError"
                           ELSE IF p \in denied THEN "PermissionError"
                           ELSE "none"]
    /\ target_path = <<>>
    /\ pc = "read_excel_to_json"
    /\ items_per_page = 0
    /\ UnusedLocals

\* main() calls create_presentation with items_per_page=2 (lines 655, 673)
NextSave == CreatePresentation(2)

SpecSave == InitSave /\ [][NextSave]_vars

(* ---------- _add_category_slides, statement by statement --------------- *)
UnusedInstance ==
    /\ df = <<>>
    /\ has_type_column = TRUE
    /\ json_data = None
    /\ filtered_total = 0
    /\ prs_saved = None
    /\ ret = None
    /\ files = NoFiles
    /\ save_error = NoFiles
    /\ target_path = <<>>

\* a call _add_category_slides(prs, category, items, items_per_page, layout)
InitPaginate ==
    /\ UnusedInstance
    /\ pc = "call"
    /\ category = <<31995>>
    /\ \E n \in 0..MaxItems :
          \E lens \in [1..n -> ContentLengths], dets \in [1..n -> DetailValues] :
             items = [i \in 1..n |->
                        [type |-> <<31995>>, content |-> lens[i], row |-> i,
                         details |-> dets[i]]]
    /\ items_per_page \in IppValues
    /\ slides_batches = <<>>
    /\ buffer_batch = <<>>
    /\ seq_number = 1
    /\ idx = 1
    /\ page_num = 1
    /\ slides = <<>>

\* lines 454-460
Enter ==
    /\ pc = "call"
    /\ pc' = IF items = <<>> THEN "return" ELSE "loop"
    /\ slides_batches' = <<>>
    /\ buffer_batch' = <<>>
    /\ seq_number' = 1
    /\ idx' = 1
    /\ UNCHANGED <<category, items, items_per_page, page_num, slides>>
    /\ UNCHANGED pipelineVars

\* one iteration of lines 461-473
LoopStep ==
    /\ pc = "loop"
    /\ idx <= Len(items)
    /\ LET st == LoopBody([slides_batches |-> slides_batches,
                           buffer_batch |-> buffer_batch,
                           seq_number |-> seq_number],
                          items[idx], items_per_page)
       IN  /\ slides_batches' = st.slides_batches
           /\ buffer_batch' = st.buffer_batch
           /\ seq_number' = st.seq_number
    /\ idx' = idx + 1
    /\ UNCHANGED <<pc, category, items, items_per_page, page_num, slides>>
    /\ UNCHANGED pipelineVars

\* lines 474-477, when the loop is exhausted
AfterLoop ==
    /\ pc = "loop"
    /\ idx > Len(items)
    /\ slides_batches' = FinalFlush([slides_batches |-> slides_batches,
                                     buffer_batch |-> buffer_batch,
                                     seq_number |-> seq_number])
    /\ page_num' = 1
    /\ pc' = "render"
    /\ UNCHANGED <<category, items, items_per_page, buffer_batch, seq_number,
                   idx, slides>>
    /\ UNCHANGED pipelineVars

\* one iteration of lines 478-541
AddSlide ==
    /\ pc = "render"
    /\ page_num <= Len(slides_batches)
    /\ slides' = Append(slides, RenderSlide(category, page_num,
                                            Len(slides_batches),
                                            slides_batches[page_num]))
    /\ page_num' = page_num + 1
    /\ UNCHANGED <<pc, category, items, items_per_page, slides_batches,
                   buffer_batch, seq_number, idx>>
    /\ UNCHANGED pipelineVars

\* the function returns
Return ==
    /\ pc = "render"
    /\ page_num > Len(slides_batches)
    /\ pc' = "return"
    /\ UNCHANGED <<category, items, items_per_page, slides_batches,
                   buffer_batch, seq_number, idx, page_num, slides>>
    /\ UNCHANGED pipelineVars

NextPaginate == Enter \/ LoopStep \/ AfterLoop \/ AddSlide \/ Return

SpecPaginate == InitPaginate /\ [][NextPaginate]_vars

\* the statement-by-statement run and the function applied at once agree
StepwiseAgrees ==
    pc = "return" => slides = AddCategorySlides(category, items, items_per_page)

(* ======================= pagination properties ========================= *)
Flushed == pc \in {"render", "return"}

Oversized(item) == ContentLen(item) > max_content_length

HasOversized(page) == \E j \in 1..Len(page) : Oversized(page[j][1])

CeilDiv(n, k) == (n + k - 1) \div k

\* C1: for items_per_page >= 1, the (item, seq) pairs of all pages of
\* slides_batches, concatenated in page order, carry the sequence numbers
\* 1..N with no gap, repeat or reordering, and pair k holds the k-th item.
C1_SequenceStability ==
    (Flushed /\ items_per_page >= 1) =>
        LET pairs == Flatten(slides_batches)
        IN  /\ Len(pairs) = Len(items)
            /\ \A k \in 1..Len(pairs) : pairs[k] = <<items[k], k>>

C1_Witness ==
    /\ pc = "return"
    /\ items_per_page >= 2
    /\ Len(items) >= 4
    /\ Len(slides_batches) >= 3
    /\ \E p \in 1..Len(slides_batches) : HasOversized(slides_batches[p])
    /\ \E p \in 1..Len(slides_batches) : Len(slides_batches[p]) >= 2

\* C2: an item whose content is longer than max_content_length is the only
\* item of its page, at every step of the pass and for every
\* items_per_page; it never waits in the shared buffer.
C2_OversizedAlone ==
    /\ \A p \in 1..Len(slides_batches) :
          HasOversized(slides_batches[p]) => Len(slides_batches[p]) = 1
    /\ (pc = "loop" => ~HasOversized(buffer_batch))

C2_Witness ==
    /\ pc = "return"
    /\ items_per_page >= 2
    /\ \E k \in 2..(Len(items) - 1) :
          /\ ~Oversized(items[k - 1])
          /\ Oversized(items[k])
          /\ ~Oversized(items[k + 1])
          /\ \E p \in 2..Len(slides_batches) :
                /\ slides_batches[p] = << <<items[k], k>> >>
                /\ Len(slides_batches[p - 1]) < items_per_page

\* C3: for items_per_page >= 1, a page without an isolated oversized item
\* holds at most items_per_page records, and the buffer never holds more
\* than items_per_page records at any step.
C3_PageSizeBound ==
    items_per_page >= 1 =>
        /\ Len(buffer_batch) <= items_per_page
        /\ \A p \in 1..Len(slides_batches) :
              ~HasOversized(slides_batches[p]) =>
                  Len(slides_batches[p]) <= items_per_page

C3_Witness ==
    /\ pc = "loop"
    /\ items_per_page >= 2
    /\ Len(buffer_batch) = items_per_page - 1
    /\ \E p \in 1..Len(slides_batches) :
          Len(slides_batches[p]) = items_per_page

\* C9: when the function returns, page i of T (i = 1..T, T the number of
\* pages produced) is titled 'category (i/T)' if T > 1 and 'category' if
\* T = 1, and shows the records of the i-th batch.
C9_PageLabels ==
    pc = "return" =>
        LET T == Len(slides_batches)
        IN  /\ Len(slides) = T
            /\ \A i \in 1..T :
                  /\ slides[i].page_items = slides_batches[i]
                  /\ slides[i].title.category = category
                  /\ slides[i].title.suffix =
                        (IF T > 1 THEN <<i, T>> ELSE <<>>)

C9_Witness ==
    /\ pc = "return"
    /\ Len(slides) >= 3
    /\ slides[3].title.suffix = <<3, Len(slides)>>

\* C10: with no oversized item and items_per_page = k >= 1, N items give
\* ceil(N/k) pages: page p holds items (p-1)k+1 .. min(pk, N) in order,
\* so only the last page may hold fewer than k.
C10_ChunkCount ==
    (Flushed /\ items_per_page >= 1
        /\ \A i \in 1..Len(items) : ~Oversized(items[i])) =>
        LET k == items_per_page
            N == Len(items)
            T == CeilDiv(N, k)
        IN  /\ Len(slides_batches) = T
            /\ \A p \in 1..Len(slides_batches) :
                  LET first == (p - 1) * k + 1
                      last == IF p * k <= N THEN p * k ELSE N
                  IN  slides_batches[p] =
                         [j \in 1..(last - first + 1) |->
                             <<items[first + j - 1], first + j - 1>>]

C10_Witness ==
    /\ pc = "return"
    /\ items_per_page = 2
    /\ Len(items) = 5
    /\ \A i \in 1..Len(items) : ~Oversized(items[i])
    /\ Len(slides_batches) = 3
    /\ Len(slides_batches[3]) = 1

\* C11: no page of slides_batches is empty, at any step and for any
\* items_per_page, and a call with an empty item list returns with no
\* page and no slide.
C11_NoEmptyPage ==
    /\ \A p \in 1..Len(slides_batches) : Len(slides_batches[p]) >= 1
    /\ \A i \in 1..Len(slides) : Len(slides[i].page_items) >= 1
    /\ (pc = "return" /\ items = <<>>) =>
          (slides_batches = <<>> /\ slides = <<>>)

\* the buffer is empty when the loop ends, with full pages before it
C11_Witness ==
    /\ pc = "return"
    /\ items_per_page >= 2
    /\ Len(items) = 2 * items_per_page
    /\ \A i \in 1..Len(items) : ~Oversized(items[i])
    /\ buffer_batch = <<>>
    /\ Len(slides) = 2

\* C14: for items_per_page >= 1, a page without an oversized record that
\* holds fewer than items_per_page records is the last page or is
\* directly followed by the page of an isolated oversized record.
C14_UnderfullOnlyBeforeBreak ==
    (Flushed /\ items_per_page >= 1) =>
        \A p \in 1..Len(slides_batches) :
            (~HasOversized(slides_batches[p])
                /\ Len(slides_batches[p]) < items_per_page) =>
                \/ p = Len(slides_batches)
                \/ HasOversized(slides_batches[p + 1])

C14_Witness ==
    /\ pc = "return"
    /\ items_per_page >= 2
    /\ \E p \in 1..(Len(slides_batches) - 2) :
          /\ ~HasOversized(slides_batches[p])
          /\ Len(slides_batches[p]) < items_per_page
          /\ HasOversized(slides_batches[p + 1])
    /\ ~HasOversized(slides_batches[Len(slides_batches)])
    /\ Len(slides_batches[Len(slides_batches)]) < items_per_page

\* paragraphs of one kind on a slide
ParagraphsOfKind(slide, kind) ==
    {k \in 1..Len(slide.paragraphs) : slide.paragraphs[k].kind = kind}

\* C12: a rendered page with m records has m content paragraphs and
\* m - 1 separator paragraphs; every separator follows the content or
\* detail paragraph of one record and directly precedes the content
\* paragraph of the next, so none follows the last record and a
\* single-record page has none.
C12_SeparatorsBetweenRecords ==
    \A s \in 1..Len(slides) :
        LET m == Len(slides[s].page_items)
            ps == slides[s].paragraphs
        IN  /\ Cardinality(ParagraphsOfKind(slides[s], "content")) = m
            /\ Cardinality(ParagraphsOfKind(slides[s], "separator")) = m - 1
            /\ \A k \in ParagraphsOfKind(slides[s], "separator") :
                  /\ 1 < k
                  /\ k < Len(ps)
                  /\ ps[k - 1].kind # "separator"
                  /\ ps[k + 1].kind = "content"

C12_Witness ==
    /\ pc = "return"
    /\ \E s \in 1..Len(slides) :
          /\ Len(slides[s].page_items) = 3
          /\ ParagraphsOfKind(slides[s], "detail") # {}
          /\ Cardinality(ParagraphsOfKind(slides[s], "separator")) = 2
    /\ \E s \in 1..Len(slides) :
          /\ Len(slides[s].page_items) = 1
          /\ ParagraphsOfKind(slides[s], "separator") = {}

(* ======================== pipeline properties ========================== *)
Created == pc = "create_presentation" /\ ret = TRUE

HasGroups == json_data # None /\ "data_by_category" \in DOMAIN json_data

\* records shown on the category slides of a document
RenderedItems(doc) ==
    Flatten([i \in 1..Len(doc.category_slides) |->
                [j \in 1..Len(doc.category_slides[i].page_items) |->
                    doc.category_slides[i].page_items[j][1]]])

\* rows of the sheet whose category does not contain "宣導"
PostFilterRows == {i \in 1..Len(df) : ~IsExcluded(TypeOf(df[i]))}

\* C4: after read_excel_to_json and create_presentation, the number of
\* record occurrences on the category slides equals the sum of
\* metadata.category_stats, and the stats list the categories of
\* data_by_category, each with the number of its records.
C4_StatsConsistency ==
    (Created /\ HasGroups) =>
        LET stats == json_data.metadata.category_stats
            groups == json_data.data_by_category
        IN  /\ Len(RenderedItems(prs_saved)) =
                  SumSeq([k \in 1..Len(stats) |-> stats[k].count])
            /\ Len(stats) = Len(groups)
            /\ \A k \in 1..Len(stats) :
                  /\ stats[k].category = groups[k].category
                  /\ stats[k].count = Len(groups[k].items)

C4_Witness ==
    /\ Created
    /\ HasGroups
    /\ has_type_column
    /\ Len(json_data.data_by_category) >= 2
    /\ Cardinality(PostFilterRows) < Len(df)
    /\ Len(RenderedItems(prs_saved)) >= 2

\* C5 (as claimed): a category containing "宣導" is in no key of
\* data_by_category, category_stats or categories, on no category slide,
\* and none of its records is rendered, on either input path.
C5_ExcludedNeverRendered ==
    /\ json_data # None =>
          /\ \A k \in 1..Len(json_data.metadata.category_stats) :
                ~IsExcluded(json_data.metadata.category_stats[k].category)
          /\ \A k \in 1..Len(json_data.metadata.categories) :
                ~IsExcluded(json_data.metadata.categories[k])
    /\ HasGroups =>
          \A k \in 1..Len(json_data.data_by_category) :
              ~IsExcluded(json_data.data_by_category[k].category)
    /\ Created =>
          /\ \A i \in 1..Len(prs_saved.category_slides) :
                ~IsExcluded(prs_saved.category_slides[i].title.category)
          /\ \A i \in 1..Len(RenderedItems(prs_saved)) :
                ~IsExcluded(TypeOf(RenderedItems(prs_saved)[i]))

\* C6 (as claimed): after every create_presentation, the first or a later
\* one, the total on the title, motivation and overview pages is the
\* number of records whose category does not contain "宣導".
C6_TotalIsPostFilterCount ==
    Created =>
        /\ prs_saved.subtitle_total = Cardinality(PostFilterRows)
        /\ prs_saved.motivation_total = Cardinality(PostFilterRows)
        /\ prs_saved.overview_total = Cardinality(PostFilterRows)

\* C7 (as claimed): create_presentation with items_per_page <= 0 fails and
\* saves no document.
C7_NonPositiveRejected ==
    (pc = "create_presentation" /\ items_per_page <= 0) =>
        /\ ret = FALSE
        /\ prs_saved = None

\* keys of data_by_category, in dict order
GroupOrder == [k \in 1..Len(json_data.data_by_category) |->
                  json_data.data_by_category[k].category]

\* the surviving category values of the sheet, in order of first occurrence
FirstOccurrenceOrder ==
    LET Kept(c) == ~IsExcluded(c)
    IN  SelectSeq(FirstOccurrences([i \in 1..Len(df) |-> df[i].type]), Kept)

\* categories of the category slides, in slide order
RenderOrder ==
    FirstOccurrences([i \in 1..Len(prs_saved.category_slides) |->
                         prs_saved.category_slides[i].title.category])

\* C8 (as claimed): the keys of data_by_category are in the order in which
\* the category values first occur in the rows.
C8_FirstOccurrenceOrder ==
    (HasGroups /\ has_type_column) => GroupOrder = FirstOccurrenceOrder

\* C8 (amended): the keys of data_by_category are the distinct surviving
\* category values in ascending string order, whatever the row order, and
\* create_presentation renders the categories in that key order.
C8_SortedGroupOrder ==
    (HasGroups /\ has_type_column) =>
        /\ \A i, j \in 1..Len(GroupOrder) :
              i < j => LexLess(GroupOrder[i], GroupOrder[j])
        /\ {GroupOrder[k] : k \in 1..Len(GroupOrder)} =
              {df[i].type : i \in PostFilterRows}
        /\ (Created => RenderOrder = GroupOrder)

C8_Witness ==
    /\ Created
    /\ HasGroups
    /\ has_type_column
    /\ Len(GroupOrder) >= 2
    /\ GroupOrder # FirstOccurrenceOrder
    /\ RenderOrder = GroupOrder

(* =========================== save properties =========================== *)
\* create_presentation has just run and prs.save(output_pptx_path) raised
\* a PermissionError
OutputDenied == ErrorAt(save_error, OutputPath) = "PermissionError"

\* the n-th alternate name: base_另存.ext, base_另存(1).ext, ...
AltName(n) ==
    IF n = 0 THEN FirstAltPath(OutputPath) ELSE NumberedAltPath(OutputPath, n)

\* the first alternate name that no file of fs has
FirstFreeAlt(fs) ==
    LET free == {n \in 0..Cardinality(DOMAIN fs) : AltName(n) \notin DOMAIN fs}
    IN  AltName(CHOOSE n \in free : \A k \in free : n <= k)

\* C13 (as claimed): when the save to the requested path is denied,
\* create_presentation still succeeds: it returns True and the document is
\* at the alternate path it reports.
C13_AlwaysRecovers ==
    (pc = "create_presentation" /\ OutputDenied) =>
        /\ ret = TRUE
        /\ target_path # <<>>
        /\ target_path # OutputPath
        /\ target_path \in DOMAIN files
        /\ files[target_path] = prs_saved

\* C13 (amended): a call whose save to the requested path is denied leaves
\* every existing file as it was and tries the first alternate name that
\* does not exist; if that save succeeds the document is there, the path is
\* reported and True is returned, if it fails too nothing is written and
\* False is returned.
C13_Step ==
    (pc' = "create_presentation" /\ OutputDenied) =>
        LET alt == FirstFreeAlt(files)
        IN  /\ \A p \in DOMAIN files :
                  p \in DOMAIN files' /\ files'[p] = files[p]
            /\ IF ErrorAt(save_error, alt) = "none"
               THEN /\ ret' = TRUE
                    /\ target_path' = alt
                    /\ DOMAIN files' = (DOMAIN files) \cup {alt}
                    /\ files'[alt] = prs_saved'
                    /\ files'[alt] # Other
               ELSE /\ ret' = FALSE
                    /\ target_path' = <<>>
                    /\ files' = files

C13_FallbackSave == [][C13_Step]_vars

\* the numbered name base_另存(1).ext was used because base_另存.ext existed
C13_Witness ==
    /\ pc = "create_presentation"
    /\ OutputDenied
    /\ ret = TRUE
    /\ target_path = <<97, 95, 21478, 23384, 40, 49, 41, 46, 112, 112, 116, 120>>
    /\ FirstAltPath(OutputPath) \in DOMAIN files
    /\ files[FirstAltPath(OutputPath)] = Other
    /\ files[target_path] = prs_saved

====
